---- MODULE Spec2Model ----
(***************************************************************************)
(* Travel receipt parser: the extraction server (server/index.js, kept in  *)
(* src/unnamed/part_001) and the intake coordinator of the client          *)
(* (src/client/src/App.tsx).                                               *)
(*                                                                         *)
(* Strings.  A JavaScript string is a sequence of one-character strings.   *)
(* A source text is kept run-length encoded: a sequence of tokens          *)
(* [ch |-> c, n |-> k] standing for k copies of the character c, so that   *)
(* the 50/100/400 character windows of the trip classifier are reached     *)
(* with short sequences.  Every position below is a position of the        *)
(* expanded string, counted from 0 as in JavaScript.                       *)
(*                                                                         *)
(* Values.  A JSON value is a record tagged by t: "null", "str" (field s), *)
(* "num" (field n), "arr", or "obj" (field f, a function from the keys     *)
(* that are present to their values).                                      *)
(***************************************************************************)
EXTENDS Integers, Sequences, FiniteSets, TLC

VARIABLES
  fnIn,         \* the inputs of a helper applied on its own
  fnOut,        \* what the helper returned
  evalRuns,     \* the eval_runs table: the rows in insertion order
  pc,           \* where the handler of each request stands
  request,      \* each request as it arrived
  response,     \* the response sent for each request
  llmRequests,  \* how many completion requests each handler has issued
  uploads,      \* the requests whose uploaded file is on disk
  extraction,   \* what the extraction of each request came to
  loading,      \* the client's state: useState(false)
  error,        \* useState<string | null>(null)
  result,       \* useState<ExtractResult | null>(null)
  fileMeta,     \* useState<{name, pages?} | null>(null)
  pick          \* each call of onPickFile: where it stands and what it did

fnVars == <<fnIn, fnOut>>

serverVars == <<evalRuns, pc, request, response, llmRequests, uploads, extraction>>

clientVars == <<loading, error, result, fileMeta, pick>>

vars == <<fnVars, serverVars, clientVars>>

----------------------------------------------------------------------------
(* JSON values *)

JNull == [t |-> "null"]

JStr(s) == [t |-> "str", s |-> s]

JNum(k) == [t |-> "num", n |-> k]

JArr == [t |-> "arr"]

JObj(f) == [t |-> "obj", f |-> f]

IsStr(v) == v.t = "str"

IsObj(v) == v.t = "obj"

\* JavaScript truthiness: null, "" and 0 are falsy.
Truthy(v) ==
  CASE v.t = "null" -> FALSE
    [] v.t = "str" -> v.s # <<>>
    [] v.t = "num" -> v.n # 0
    [] OTHER -> TRUE

\* obj[k] with `undefined` read as null: the code only ever tests such a
\* value with ||, ?? or typeof, which treat the two alike.
Get(v, k) == IF IsObj(v) /\ k \in DOMAIN v.f THEN v.f[k] ELSE JNull

\* `k in obj`
HasKey(v, k) == IsObj(v) /\ k \in DOMAIN v.f

\* obj with obj[k] = val
Put(v, k, val) ==
  JObj([x \in (DOMAIN v.f) \cup {k} |-> IF x = k THEN val ELSE v.f[x]])

----------------------------------------------------------------------------
(* Characters and strings *)

LowerCase == <<"a", "b", "c", "d", "e", "f", "g", "h", "i", "j", "k", "l", "m",
               "n", "o", "p", "q", "r", "s", "t", "u", "v", "w", "x", "y", "z">>

UpperCase == <<"A", "B", "C", "D", "E", "F", "G", "H", "I", "J", "K", "L", "M",
               "N", "O", "P", "Q", "R", "S", "T", "U", "V", "W", "X", "Y", "Z">>

Digits == {"0", "1", "2", "3", "4", "5", "6", "7", "8", "9"}

Range(s) == {s[i] : i \in DOMAIN s}

LowerLetters == Range(LowerCase)

UpperLetters == Range(UpperCase)

\* [A-Za-z]
IsLetter(c) == c \in LowerLetters \/ c \in UpperLetters

\* \w of a JavaScript regular expression
IsWordChar(c) == IsLetter(c) \/ c \in Digits \/ c = "_"

\* \s of a JavaScript regular expression (the members the inputs use)
IsSpace(c) == c \in {" ", "\t", "\n"}

\* characters of the range À-ÿ that the inputs use, lower and upper case
LowerAccented == <<"é">>

UpperAccented == <<"É">>

AccentedChars == Range(LowerAccented) \cup Range(UpperAccented)

ToLowerMap == [c \in UpperLetters \cup Range(UpperAccented) |->
                 IF c \in UpperLetters THEN LowerCase[CHOOSE i \in DOMAIN UpperCase : UpperCase[i] = c]
                 ELSE LowerAccented[CHOOSE i \in DOMAIN UpperAccented : UpperAccented[i] = c]]

ToUpperMap == [c \in LowerLetters \cup Range(LowerAccented) |->
                 IF c \in LowerLetters THEN UpperCase[CHOOSE i \in DOMAIN LowerCase : LowerCase[i] = c]
                 ELSE UpperAccented[CHOOSE i \in DOMAIN LowerAccented : LowerAccented[i] = c]]

ToLowerChar(c) == IF c \in DOMAIN ToLowerMap THEN ToLowerMap[c] ELSE c

ToUpperChar(c) == IF c \in DOMAIN ToUpperMap THEN ToUpperMap[c] ELSE c

\* String.prototype.toLowerCase / toUpperCase on a character sequence
toLowerCase(s) == [i \in DOMAIN s |-> ToLowerChar(s[i])]

toUpperCase(s) == [i \in DOMAIN s |-> ToUpperChar(s[i])]

\* toLowerCase on a run-length encoded text
textToLowerCase(t) == [i \in DOMAIN t |-> [ch |-> ToLowerChar(t[i].ch), n |-> t[i].n]]

SetMin(S) == CHOOSE x \in S : \A y \in S : x <= y

Max(a, b) == IF a >= b THEN a ELSE b

RECURSIVE TextLength(_)
\* t.length of a run-length encoded text
TextLength(t) == IF t = <<>> THEN 0 ELSE t[1].n + TextLength(Tail(t))

\* position of the first character of token i
TokenStart(t, i) == TextLength(SubSeq(t, 1, i - 1))

\* t[p]
CharAt(t, p) ==
  LET i == CHOOSE j \in DOMAIN t : TokenStart(t, j) <= p /\ p < TokenStart(t, j) + t[j].n
  IN  t[i].ch

\* does pat occur in t at position p
MatchAt(t, pat, p) ==
  /\ p >= 0
  /\ p + Len(pat) <= TextLength(t)
  /\ \A k \in DOMAIN pat : CharAt(t, p + k - 1) = pat[k]

\* the least member of S, d when S is empty
MinOr(S, d) == IF S = {} THEN d ELSE SetMin(S)

\* the positions at which an occurrence of pat can start: those holding pat[1]
FirstCharPositions(t, pat) ==
  UNION {TokenStart(t, i) .. (TokenStart(t, i) + t[i].n - 1) :
           i \in {j \in DOMAIN t : t[j].ch = pat[1]}}

\* t.indexOf(pat, from) for a non-empty pat: the least position >= from
\* (a negative from counts as 0) at which pat occurs, or -1.
indexOf(t, pat, from) ==
  MinOr({p \in FirstCharPositions(t, pat) : p >= Max(from, 0) /\ MatchAt(t, pat, p)}, -1)

\* /\d/.test(t.slice(lo, hi))
hasDigitIn(t, lo, hi) ==
  \E i \in DOMAIN t :
    /\ t[i].ch \in Digits
    /\ TokenStart(t, i) < hi
    /\ TokenStart(t, i) + t[i].n > lo

----------------------------------------------------------------------------
(* Helpers of the server: name and ticket number cleanup *)

Honorifics == << <<"M", "R">>, <<"M", "R", "S">>, <<"M", "S">>,
                 <<"M", "I", "S", "S">>, <<"D", "R">>, <<"P", "R", "O", "F">> >>

\* does the alternative h of /\b(MR|MRS|MS|MISS|DR|PROF)\b/i match s at index i
HonorificMatches(s, i, h) ==
  /\ i = 1 \/ ~IsWordChar(s[i - 1])
  /\ i + Len(h) - 1 <= Len(s)
  /\ \A k \in DOMAIN h : ToUpperChar(s[i + k - 1]) = h[k]
  /\ i + Len(h) > Len(s) \/ ~IsWordChar(s[i + Len(h)])

\* the length of the first alternative among alts, with the full stop after it
MatchLength(s, i, alts) ==
  IF alts = {} THEN 0
  ELSE Len(Honorifics[SetMin(alts)]) +
       (IF i + Len(Honorifics[SetMin(alts)]) <= Len(s)
           /\ s[i + Len(Honorifics[SetMin(alts)])] = "." THEN 1 ELSE 0)

\* length of the match of /\b(MR|MRS|MS|MISS|DR|PROF)\b\.?/i at index i, 0 if none
HonorificLength(s, i) ==
  MatchLength(s, i, {j \in DOMAIN Honorifics : HonorificMatches(s, i, Honorifics[j])})

RECURSIVE StripHonorifics(_, _)
\* the rest of s.replace(/\b(MR|MRS|MS|MISS|DR|PROF)\b\.?/gi, "") when the
\* match at index i has length m
SkipOrKeep(s, i, m) ==
  IF m > 0 THEN StripHonorifics(s, i + m) ELSE <<s[i]>> \o StripHonorifics(s, i + 1)

\* s.replace(/\b(MR|MRS|MS|MISS|DR|PROF)\b\.?/gi, "") from index i on
StripHonorifics(s, i) ==
  IF i > Len(s) THEN <<>> ELSE SkipOrKeep(s, i, HonorificLength(s, i))

\* [A-Za-zÀ-ÿ\s'-]
IsNameChar(c) == IsLetter(c) \/ c \in AccentedChars \/ IsSpace(c) \/ c \in {"'", "-"}

RECURSIVE CollapseSpaces(_)
\* s.replace(/\s+/g, " ")
CollapseSpaces(s) ==
  IF s = <<>> THEN <<>>
  ELSE IF IsSpace(s[1])
       THEN IF Len(s) > 1 /\ IsSpace(s[2]) THEN CollapseSpaces(Tail(s))
            ELSE <<" ">> \o CollapseSpaces(Tail(s))
       ELSE <<s[1]>> \o CollapseSpaces(Tail(s))

RECURSIVE TrimLeft(_)
TrimLeft(s) == IF s # <<>> /\ IsSpace(s[1]) THEN TrimLeft(Tail(s)) ELSE s

RECURSIVE TrimRight(_)
TrimRight(s) ==
  IF s # <<>> /\ IsSpace(s[Len(s)]) THEN TrimRight(SubSeq(s, 1, Len(s) - 1)) ELSE s

\* String.prototype.trim
trim(s) == TrimRight(TrimLeft(s))

\* s.replace(/[^A-Za-zÀ-ÿ\s'-]/g, " ")
KeepNameChars(s) == [i \in DOMAIN s |-> IF IsNameChar(s[i]) THEN s[i] ELSE " "]

\* s.replace(/[^\d\s]/g, " ")
KeepDigits(s) == [i \in DOMAIN s |-> IF s[i] \in Digits \/ IsSpace(s[i]) THEN s[i] ELSE " "]

\* if (!stripped) return null; return stripped.toUpperCase()
UpperCaseOrNull(stripped) == IF stripped = <<>> THEN JNull ELSE JStr(toUpperCase(stripped))

\* return digits || null
StringOrNull(digits) == IF digits = <<>> THEN JNull ELSE JStr(digits)

cleanNameAllCaps(name) ==
  IF ~Truthy(name) \/ ~IsStr(name) THEN JNull
  ELSE UpperCaseOrNull(trim(CollapseSpaces(KeepNameChars(StripHonorifics(name.s, 1)))))

cleanTicketNumber(tn) ==
  IF ~Truthy(tn) \/ ~IsStr(tn) THEN JNull
  ELSE StringOrNull(trim(CollapseSpaces(KeepDigits(tn.s))))

----------------------------------------------------------------------------
(* Schema completion and validation *)

FlightKeys == <<"passengerName", "bookingReference", "ticketNumber", "tripType",
                "overallFrom", "overallTo", "departureDate", "returnDate",
                "currency", "totalPrice">>

HotelKeys == <<"guestName", "hotelName", "receiptNumber", "hotelCity",
               "checkInDate", "checkOutDate", "currency", "totalPrice">>

Flight == JStr(<<"flight">>)

Hotel == JStr(<<"hotel">>)

OneWay == JStr(<<"one_way">>)

RoundTrip == JStr(<<"round_trip">>)

\* for (const k of keys) if (!(k in obj)) obj[k] = null
FillKeys(obj, keys) ==
  JObj([k \in (DOMAIN obj.f) \cup Range(keys) |->
          IF k \in DOMAIN obj.f THEN obj.f[k] ELSE JNull])

\* completion that knows the flight keys only
ensureFlightKeys(obj) ==
  IF ~IsObj(obj) THEN obj
  ELSE IF Get(obj, "type") = Flight THEN FillKeys(obj, FlightKeys)
  ELSE obj

ensureRequiredKeys(obj) ==
  IF ~IsObj(obj) THEN obj
  ELSE IF Get(obj, "type") = Flight THEN FillKeys(obj, FlightKeys)
  ELSE IF Get(obj, "type") = Hotel THEN FillKeys(obj, HotelKeys)
  ELSE obj

\* the message of the Error a call throws; NoError when it returns
NoError == <<>>

\* the first of the required keys that obj lacks, 0 when it has them all
FirstMissing(obj, required) ==
  MinOr({i \in DOMAIN required : ~HasKey(obj, required[i])}, 0)

\* for (const k of required) if (!(k in obj)) throw new Error(...)
MissingKeyError(label, required, missing) ==
  IF missing = 0 THEN NoError ELSE <<label, required[missing]>>

\* validation that takes every tag other than "flight" for a valid one
assertFlightKeysOnly(obj) ==
  IF Get(obj, "type") = Flight
  THEN MissingKeyError("Flight output missing key", FlightKeys, FirstMissing(obj, FlightKeys))
  ELSE NoError

assertValidOutput(obj) ==
  IF Get(obj, "type") # Flight /\ Get(obj, "type") # Hotel
  THEN <<"Model output missing/invalid type">>
  ELSE IF Get(obj, "type") = Flight
  THEN MissingKeyError("Flight output missing key", FlightKeys, FirstMissing(obj, FlightKeys))
  ELSE MissingKeyError("Hotel output missing key", HotelKeys, FirstMissing(obj, HotelKeys))

----------------------------------------------------------------------------
(* The response decoder: stripCodeFences, extractFirstJSONObject, callLLM *)

(* A raw response is a sequence of chunks of text:                         *)
(*   "{" "}"  a brace outside every string                                 *)
(*   "k"      a member with a scalar value, as "currency":"EUR",           *)
(*   "q"      a member whose string value holds a fence, "a":"x```y",      *)
(*   "r"      that member without the fence, "a":"xy",                     *)
(*   "n"      a key and its colon, awaiting an object, "price":            *)
(*   "1"      a scalar JSON value, as 42                                   *)
(*   "w"      a word of prose, no JSON at any place                        *)
(*   "f"      a fence, ``` or ```json with the blanks behind it            *)
(* Blanks and the commas between members are part of the chunks.           *)

Fence == "f"

Members == {"k", "q", "r"}

\* text.replace(/```json\s*/gi, "").replace(/```/g, ""), also inside a string
StripChunk(c) == IF c = "q" THEN "r" ELSE c

stripCodeFences(s) ==
  [i \in 1 .. Len(SelectSeq(s, LAMBDA c : c # Fence)) |->
     StripChunk(SelectSeq(s, LAMBDA c : c # Fence)[i])]

RECURSIVE ValueEnd(_, _)
RECURSIVE MembersEnd(_, _)
\* JSON.parse, as a descent through the chunks: the index behind the value
\* that starts at i, 0 when none starts there
ValueEnd(s, i) ==
  IF i > Len(s) THEN 0
  ELSE IF s[i] = "1" THEN i + 1
  ELSE IF s[i] = "{" THEN MembersEnd(s, i + 1)
  ELSE 0

\* the members behind a nested value that ended at e
MembersAfter(s, e) == IF e = 0 THEN 0 ELSE MembersEnd(s, e)

MembersEnd(s, i) ==
  IF i > Len(s) THEN 0
  ELSE IF s[i] = "}" THEN i + 1
  ELSE IF s[i] \in Members THEN MembersEnd(s, i + 1)
  ELSE IF s[i] = "n" /\ i < Len(s) /\ s[i + 1] = "{" THEN MembersAfter(s, ValueEnd(s, i + 1))
  ELSE 0

\* JSON.parse(s): the value, which its chunks determine, or a SyntaxError
JSONParse(s) ==
  IF ValueEnd(s, 1) = Len(s) + 1 THEN [ok |-> TRUE, value |-> s] ELSE [ok |-> FALSE]

\* depth after the chunks start .. i of s
RECURSIVE Depth(_, _, _)
Depth(s, start, i) ==
  IF i < start THEN 0
  ELSE Depth(s, start, i - 1) + (IF s[i] = "{" THEN 1 ELSE IF s[i] = "}" THEN -1 ELSE 0)

NoObject == <<>>

\* the for loop: the slice up to the first i at which depth is 0, or null
BalancedFrom(s, start) ==
  IF start = 0 THEN NoObject
  ELSE IF \E i \in start .. Len(s) : Depth(s, start, i) = 0
  THEN SubSeq(s, start, MinOr({i \in start .. Len(s) : Depth(s, start, i) = 0}, 0))
  ELSE NoObject

extractFirstJSONObject(raw) ==
  BalancedFrom(stripCodeFences(raw),
               MinOr({i \in DOMAIN stripCodeFences(raw) : stripCodeFences(raw)[i] = "{"}, 0))

\* the second JSON.parse of callLLM and its two throws
ParseExtracted(jsonStr) ==
  IF jsonStr = NoObject
  THEN [ok |-> FALSE, error |-> <<"Invalid JSON from model (no object found)">>]
  ELSE IF JSONParse(jsonStr).ok THEN [ok |-> TRUE, value |-> jsonStr]
  ELSE [ok |-> FALSE, error |-> <<"Invalid JSON from model (parse failed)">>]

\* callLLM from the content of the provider's answer on
decodeResponse(raw) ==
  IF JSONParse(stripCodeFences(raw)).ok
  THEN [ok |-> TRUE, value |-> stripCodeFences(raw)]
  ELSE ParseExtracted(extractFirstJSONObject(raw))

----------------------------------------------------------------------------
(* Post-processing of a flight record: the trip classifier *)

RepetitionWindow == 400

SnippetBefore == 50

SnippetAfter == 100

\* const isRepetition = (nextB !== -1 && (nextB - cursor) < 400)
IsNear(nextB, cursor) == nextB # -1 /\ (nextB - cursor) < RepetitionWindow

isRepetition(t, b, cursor) == IsNear(indexOf(t, b, cursor), cursor)

\* a plausibility check that looks for a digit in the whole text
hasDigitAnywhere(t, cursor) == hasDigitIn(t, 0, TextLength(t))

\* /\d/.test(t.slice(Math.max(0, cursor - 50), cursor + 100))
hasDigit(t, cursor) ==
  hasDigitIn(t, Max(0, cursor - SnippetBefore), cursor + SnippetAfter)

RECURSIVE ScanReturnLeg(_, _, _, _)
\* the body of the while loop at an origin occurrence, or its exit at -1
ScanAt(t, a, b, cursor) ==
  IF cursor = -1 THEN FALSE
  ELSE IF ~isRepetition(t, b, cursor) /\ hasDigit(t, cursor) THEN TRUE
  ELSE ScanReturnLeg(t, a, b, cursor + 1)

\* the while loop: TRUE when it returns round_trip, FALSE when it runs out
ScanReturnLeg(t, a, b, from) == ScanAt(t, a, b, indexOf(t, a, from))

\* the TypeError of (out[k] || "").toLowerCase() on a truthy non-string
ToLowerCaseError(k) == <<"toLowerCase is not a function", k>>

\* (v || "").toLowerCase(): defined for a string and for a falsy value
CanLowerCase(v) == ~Truthy(v) \/ IsStr(v)

OrEmptyLowerCase(v) == IF Truthy(v) THEN toLowerCase(v.s) ELSE <<>>

\* a classifier that clears returnDate whatever it finds
ClassifyLegsDropDate(out, t, a, b, idxA, idxB) ==
  IF idxA # -1 /\ idxB # -1 /\ ScanReturnLeg(t, a, b, idxB)
  THEN [threw |-> FALSE, out |-> Put(Put(out, "tripType", RoundTrip), "returnDate", JNull)]
  ELSE [threw |-> FALSE, out |-> Put(out, "returnDate", JNull)]

\* a classifier that leaves the model's returnDate on a one-way record
ClassifyLegsKeepDate(out, t, a, b, idxA, idxB) ==
  IF idxA # -1 /\ idxB # -1 /\ ScanReturnLeg(t, a, b, idxB)
  THEN [threw |-> FALSE, out |-> Put(out, "tripType", RoundTrip)]
  ELSE [threw |-> FALSE, out |-> out]

\* lines 291-317: the forward leg at idxA and idxB, the scan, the result
ClassifyLegs(out, t, a, b, idxA, idxB) ==
  IF idxA # -1 /\ idxB # -1 /\ ScanReturnLeg(t, a, b, idxB)
  THEN [threw |-> FALSE, out |-> Put(out, "tripType", RoundTrip)]
  ELSE [threw |-> FALSE, out |-> Put(out, "returnDate", JNull)]

\* lines 285-289
ClassifyFrom(out, t, a, b, idxA) == ClassifyLegs(out, t, a, b, idxA, indexOf(t, b, idxA))

ClassifyCities(out, t, a, b) ==
  IF a = <<>> \/ b = <<>> THEN [threw |-> FALSE, out |-> out]
  ELSE ClassifyFrom(out, t, a, b, indexOf(t, a, 0))

\* lines 278-283 on the record with its name and ticket number cleaned
ClassifyTrip(out, t) ==
  IF ~CanLowerCase(Get(out, "overallFrom"))
  THEN [threw |-> TRUE, error |-> ToLowerCaseError("overallFrom")]
  ELSE IF ~CanLowerCase(Get(out, "overallTo"))
  THEN [threw |-> TRUE, error |-> ToLowerCaseError("overallTo")]
  ELSE ClassifyCities(Put(out, "tripType", OneWay), t,
                      OrEmptyLowerCase(Get(out, "overallFrom")),
                      OrEmptyLowerCase(Get(out, "overallTo")))

\* lines 272-276
CleanFields(flightObj) ==
  Put(Put(flightObj, "passengerName", cleanNameAllCaps(Get(flightObj, "passengerName"))),
      "ticketNumber", cleanTicketNumber(Get(flightObj, "ticketNumber")))

\* [threw |-> FALSE, out |-> the record] or [threw |-> TRUE, error |-> message]
postProcessFlight(flightObj, originalText) ==
  ClassifyTrip(CleanFields(flightObj), textToLowerCase(originalText))

\* the second assertValidOutput and the value the try block goes on with:
\* [ok |-> TRUE, data |-> the record] or [ok |-> FALSE, error |-> message]
Checked(final) ==
  IF assertValidOutput(final) # NoError
  THEN [ok |-> FALSE, error |-> assertValidOutput(final)]
  ELSE [ok |-> TRUE, data |-> final]

AfterPostProcess(processed) ==
  IF processed.threw THEN [ok |-> FALSE, error |-> processed.error]
  ELSE Checked(ensureRequiredKeys(processed.out))

AfterCompletion(completed, text) ==
  IF assertValidOutput(completed) # NoError
  THEN [ok |-> FALSE, error |-> assertValidOutput(completed)]
  ELSE IF Get(completed, "type") = Flight
  THEN AfterPostProcess(postProcessFlight(completed, text))
  ELSE Checked(ensureRequiredKeys(completed))

\* The steps of a route between the model's decoded answer and the response
\* (ensureRequiredKeys, assertValidOutput, postProcessFlight, and both again)
validateAndPostProcess(decoded, text) == AfterCompletion(ensureRequiredKeys(decoded), text)

----------------------------------------------------------------------------
(* The server: POST /api/extract and POST /api/extract-file *)

\* requests the server receives in one run
MaxRequests == 2

Requests == 1 .. MaxRequests

NoResponse == [status |-> 0]

NoExtraction == [op |-> "none"]

ServerIdle ==
  /\ evalRuns = <<>>
  /\ pc = [r \in Requests |-> "none"]
  /\ request = [r \in Requests |-> [route |-> "none"]]
  /\ response = [r \in Requests |-> NoResponse]
  /\ llmRequests = [r \in Requests |-> 0]
  /\ uploads = {}
  /\ extraction = [r \in Requests |-> NoExtraction]

\* JSON.stringify(data)
Serialized(data) == [json |-> data]

\* the row logEvalRun inserts; req is not a column: it names the request
\* whose handler made the call
EvalRow(r, row) ==
  [req |-> r,
   input_type |-> row.input_type,
   input_chars |-> row.input_chars,
   ocr_used |-> IF row.ocr_used = 1 THEN 1 ELSE 0,
   success |-> IF row.success = 1 THEN 1 ELSE 0,
   docType_pred |-> row.docType_pred,
   json_output |-> row.json_output,
   parse_error |-> row.parse_error]

SuccessRow(r, inputType, inputChars, data) ==
  EvalRow(r, [input_type |-> inputType, input_chars |-> inputChars,
              ocr_used |-> IF inputType = "image" THEN 1 ELSE 0, success |-> 1,
              docType_pred |-> Get(data, "type"), json_output |-> Serialized(data),
              parse_error |-> JNull])

\* a failure row that does not take the message of the error caught
FailureRowUnknown(r, inputType, inputChars, message) ==
  EvalRow(r, [input_type |-> inputType, input_chars |-> inputChars,
              ocr_used |-> IF inputType = "image" THEN 1 ELSE 0, success |-> 0,
              docType_pred |-> JNull, json_output |-> JNull,
              parse_error |-> <<"Unknown error">>])

FailureRow(r, inputType, inputChars, message) ==
  EvalRow(r, [input_type |-> inputType, input_chars |-> inputChars,
              ocr_used |-> IF inputType = "image" THEN 1 ELSE 0, success |-> 0,
              docType_pred |-> JNull, json_output |-> JNull,
              parse_error |-> message])

RecorderError == <<"SqliteError: insert failed">>

\* res.json({ ok: true, data })
OkResponse(data) == [status |-> 200, body |-> [ok |-> TRUE, data |-> data]]

\* res.status(code).json({ error: message })
ErrorResponse(code, message) == [status |-> code, body |-> [error |-> message]]

\* The catch block of a route: logEvalRun of the failure, then the 500
\* response.  When logEvalRun throws there, the handler's promise rejects
\* and this code sends no response.
CatchBlock(r, inputType, inputChars, message, logThrows) ==
  IF logThrows
  THEN /\ pc' = [pc EXCEPT ![r] = "rejected"]
       /\ UNCHANGED <<evalRuns, response>>
  ELSE /\ evalRuns' = Append(evalRuns, FailureRow(r, inputType, inputChars, message))
       /\ response' = [response EXCEPT ![r] = ErrorResponse(500, message)]
       /\ pc' = [pc EXCEPT ![r] = "done"]

\* The end of the try block of a route, from the outcome of validation and
\* post-processing on: logEvalRun of the success, the response; any throw on
\* the way, logEvalRun's included, enters the catch block.
FinishTry(r, inputType, inputChars, outcome, logThrows1, logThrows2) ==
  /\ extraction' = [extraction EXCEPT ![r] = [op |-> "extract", r |-> outcome]]
  /\ IF ~outcome.ok
     THEN CatchBlock(r, inputType, IF inputType = "image" THEN 0 ELSE inputChars,
                     outcome.error, logThrows1)
     ELSE IF logThrows1
     THEN CatchBlock(r, inputType, IF inputType = "image" THEN 0 ELSE inputChars,
                     RecorderError, logThrows2)
     ELSE /\ evalRuns' = Append(evalRuns, SuccessRow(r, inputType, inputChars,
                                                     outcome.data))
          /\ response' = [response EXCEPT ![r] = OkResponse(outcome.data)]
          /\ pc' = [pc EXCEPT ![r] = "done"]

----------------------------------------------------------------------------
(* The state of the client (App.tsx) *)

\* files the user picks in one run
MaxPicks == 1

Picks == 1 .. MaxPicks

NotPicked ==
  [pc |-> "none", doc |-> [kind |-> "none"], page |-> 0, closureError |-> JNull,
   canvases |-> {}, attempts |-> <<>>, submitted |-> <<>>, textCalls |-> 0,
   firstFailure |-> JNull, finish |-> [how |-> "none"]]

ClientIdle ==
  /\ loading = FALSE
  /\ error = JNull
  /\ result = JNull
  /\ fileMeta = JNull
  /\ pick = [p \in Picks |-> NotPicked]

----------------------------------------------------------------------------
(* Inputs *)

\* longest source text, in tokens
MaxTextLen == 5

\* most required keys a decoded object lacks
MaxMissing == 2

Tok(c, k) == [ch |-> c, n |-> k]

\* the origin letter, the destination letter, a digit, and two runs of blanks:
\* one shorter than every window of the classifier, one longer than all but
\* the repetition window, which it reaches together with one character
Tokens == {Tok("L", 1), Tok("p", 1), Tok("1", 1), Tok(" ", 49), Tok(" ", 399)}

Texts == UNION {[1 .. k -> Tokens] : k \in 0 .. MaxTextLen}

SomeDate == JStr(<<"2024-05-01">>)

\* overallFrom and overallTo as the model returns them: a missing city, a
\* plain pair, an origin contained in the destination, the same city twice,
\* and a city that is no string
CityPairs == {[from |-> JNull, to |-> JStr(<<"P">>)],
              [from |-> JStr(<<>>), to |-> JStr(<<"P">>)],
              [from |-> JStr(<<"L">>), to |-> JNull],
              [from |-> JStr(<<"L">>), to |-> JStr(<<"P">>)],
              [from |-> JStr(<<"P">>), to |-> JStr(<<"L", "P">>)],
              [from |-> JStr(<<"P">>), to |-> JStr(<<"P">>)],
              [from |-> JNum(7), to |-> JStr(<<"P">>)]}

\* what the model guessed for tripType and returnDate
ModelGuesses == {[tripType |-> RoundTrip, returnDate |-> SomeDate],
                 [tripType |-> JNull, returnDate |-> JNull]}

\* a complete flight object as the model returns it
FlightObject(cities, guess) ==
  JObj([k \in Range(FlightKeys) \cup {"type"} |->
          CASE k = "type" -> Flight
            [] k = "overallFrom" -> cities.from
            [] k = "overallTo" -> cities.to
            [] k = "tripType" -> guess.tripType
            [] k = "returnDate" -> guess.returnDate
            [] k = "passengerName" -> JStr(<<"M", "r", ".", " ", "L", "e", "e">>)
            [] k = "ticketNumber" -> JStr(<<"1", "-", "1">>)
            [] k = "totalPrice" -> JNum(7)
            [] OTHER -> JNull])

\* the "type" of a decoded object: the two tags, another tag, a tag in the
\* wrong case, null, or no "type" key at all
NoTag == [t |-> "undefined"]

TypeTags == {Flight, Hotel, JStr(<<"car">>), JStr(<<"FLIGHT">>), JNull, NoTag}

\* the value the model gives a key
ModelValue(k) ==
  CASE k = "overallFrom" -> JStr(<<"L">>)
    [] k = "overallTo" -> JStr(<<"P">>)
    [] k = "tripType" -> RoundTrip
    [] k = "returnDate" -> SomeDate
    [] k = "guestName" -> JStr(<<"D", "r", " ", "X">>)
    [] k = "totalPrice" -> JNum(7)
    [] OTHER -> JNull

\* the keys of one schema, or none, less at most MaxMissing of them
KeySets ==
  UNION {{K \in SUBSET S : Cardinality(S \ K) <= MaxMissing} :
           S \in {Range(FlightKeys), Range(HotelKeys), {}}}

DecodedObject(tag, keys) ==
  JObj([k \in keys \cup (IF tag = NoTag THEN {} ELSE {"type"}) |->
          IF k = "type" THEN tag ELSE ModelValue(k)])

\* what JSON.parse can return for the model's answer
DecodedValues ==
  {JNull, JNum(7), JStr(<<"flight">>), JArr} \cup
  {DecodedObject(tag, keys) : tag \in TypeTags, keys \in KeySets}

----------------------------------------------------------------------------
(* The flight post-processing applied to bounded inputs *)

NotRun == [op |-> "none"]

InitFlight ==
  /\ fnIn \in [text : Texts, cities : CityPairs, guess : ModelGuesses]
  /\ fnOut = NotRun
  /\ ServerIdle
  /\ ClientIdle

\* the route's steps on the model's answer (part_001 lines 436-447)
Extract ==
  /\ fnOut = NotRun
  /\ fnOut' = [op |-> "extract",
               r |-> validateAndPostProcess(FlightObject(fnIn.cities, fnIn.guess),
                                            fnIn.text)]
  /\ UNCHANGED <<fnIn, serverVars, clientVars>>

NextFlight == Extract

SpecFlight == InitFlight /\ [][NextFlight]_vars

----------------------------------------------------------------------------
(* The routes *)

\* body.text of a request to /api/extract: absent, not a string, or a text
\* that names a round trip
RoundTripText == <<Tok("L", 1), Tok("p", 1), Tok("L", 1), Tok("1", 1)>>

BodyTexts == {JNull, JNum(5), JStr(RoundTripText)}

\* the upload of a request to /api/extract-file: its mimetype, or no file
NoFile == "none"

Uploads == {NoFile, "application/pdf", "image/png"}

\* what the OCR of an uploaded image comes to
OcrOutcomes == {[ok |-> FALSE], [ok |-> TRUE, text |-> <<>>],
                [ok |-> TRUE, text |-> RoundTripText]}

HotelObject ==
  JObj([k \in Range(HotelKeys) \cup {"type"} |->
          CASE k = "type" -> Hotel
            [] k = "guestName" -> JStr(<<"D", "r", " ", "X">>)
            [] OTHER -> JNull])

RoundTripGuess == [tripType |-> RoundTrip, returnDate |-> SomeDate]

\* what the completion request comes to: a transport failure, an error the
\* provider reports, an answer holding no JSON object or one that does not
\* parse, or a decoded answer
LLMOutcomes ==
  {[kind |-> "fetchError"], [kind |-> "providerError"],
   [kind |-> "noObject"], [kind |-> "parseFailed"]} \cup
  {[kind |-> "decoded", value |-> v] :
     v \in {HotelObject,
            FlightObject([from |-> JStr(<<"L">>), to |-> JStr(<<"P">>)], RoundTripGuess),
            FlightObject([from |-> JNull, to |-> JStr(<<"P">>)], RoundTripGuess),
            JObj([k \in {"type"} |-> JStr(<<"car">>)])}}

\* the message of the Error callLLM throws for an outcome
LLMError(outcome) ==
  CASE outcome.kind = "fetchError" -> <<"fetch failed">>
    [] outcome.kind = "providerError" -> <<"provider error">>
    [] outcome.kind = "noObject" -> <<"Invalid JSON from model (no object found)">>
    [] outcome.kind = "parseFailed" -> <<"Invalid JSON from model (parse failed)">>

NormalizeTextError == <<"text.replace is not a function">>

OcrError == <<"ocr failed">>

\* inputText.length, 0 for what is no string
InputChars(text) == IF IsStr(text) THEN TextLength(text.s) ELSE 0

InputType(r) == IF request[r].route = "/api/extract" THEN "text" ELSE "image"

\* POST /api/extract up to the completion request
ExtractText(r, text, logThrows) ==
  /\ pc[r] = "none"
  /\ request' = [request EXCEPT ![r] = [route |-> "/api/extract", text |-> text]]
  /\ UNCHANGED uploads
  /\ IF ~Truthy(text)
     THEN /\ response' = [response EXCEPT ![r] = ErrorResponse(400, <<"Missing text">>)]
          /\ pc' = [pc EXCEPT ![r] = "done"]
          /\ UNCHANGED <<evalRuns, llmRequests, extraction>>
     ELSE IF ~IsStr(text)
     THEN /\ extraction' = [extraction EXCEPT ![r] =
                              [op |-> "extract",
                               r |-> [ok |-> FALSE, error |-> NormalizeTextError]]]
          /\ CatchBlock(r, "text", 0, NormalizeTextError, logThrows)
          /\ UNCHANGED llmRequests
     ELSE /\ llmRequests' = [llmRequests EXCEPT ![r] = @ + 1]
          /\ pc' = [pc EXCEPT ![r] = "awaitLLM"]
          /\ UNCHANGED <<evalRuns, response, extraction>>
  /\ UNCHANGED <<fnVars, clientVars>>

\* POST /api/extract-file up to the OCR of the stored upload; the upload is
\* stored before the handler runs and unlinked in its finally block
ExtractFile(r, mimetype) ==
  /\ pc[r] = "none"
  /\ request' = [request EXCEPT ![r] =
                   [route |-> "/api/extract-file", file |-> mimetype, text |-> JNull]]
  /\ IF mimetype = NoFile
     THEN /\ response' = [response EXCEPT ![r] = ErrorResponse(400, <<"Missing file">>)]
          /\ pc' = [pc EXCEPT ![r] = "done"]
          /\ UNCHANGED uploads
     ELSE IF mimetype # "image/png"
     THEN /\ response' = [response EXCEPT ![r] =
                            ErrorResponse(400, <<"Only images supported">>)]
          /\ pc' = [pc EXCEPT ![r] = "done"]
          /\ uploads' = uploads \ {r}
     ELSE /\ pc' = [pc EXCEPT ![r] = "awaitOcr"]
          /\ uploads' = uploads \cup {r}
          /\ UNCHANGED response
  /\ UNCHANGED <<evalRuns, llmRequests, extraction, fnVars, clientVars>>

\* extractTextFromImage settles: on a failure the catch and finally blocks
\* run, otherwise callLLM issues the completion request
OcrReturns(r, outcome, logThrows) ==
  /\ pc[r] = "awaitOcr"
  /\ IF ~outcome.ok
     THEN /\ extraction' = [extraction EXCEPT ![r] =
                              [op |-> "extract", r |-> [ok |-> FALSE, error |-> OcrError]]]
          /\ CatchBlock(r, "image", 0, OcrError, logThrows)
          /\ uploads' = uploads \ {r}
          /\ UNCHANGED <<request, llmRequests>>
     ELSE /\ request' = [request EXCEPT ![r].text = JStr(outcome.text)]
          /\ llmRequests' = [llmRequests EXCEPT ![r] = @ + 1]
          /\ pc' = [pc EXCEPT ![r] = "awaitLLM"]
          /\ UNCHANGED <<evalRuns, response, uploads, extraction>>
  /\ UNCHANGED <<fnVars, clientVars>>

\* the completion request settles and the handler runs to its end
CompletionReturns(r, outcome, logThrows1, logThrows2) ==
  /\ pc[r] = "awaitLLM"
  /\ IF outcome.kind # "decoded"
     THEN /\ extraction' = [extraction EXCEPT ![r] =
                              [op |-> "extract",
                               r |-> [ok |-> FALSE, error |-> LLMError(outcome)]]]
          /\ CatchBlock(r, InputType(r),
                        IF InputType(r) = "image" THEN 0 ELSE InputChars(request[r].text),
                        LLMError(outcome), logThrows1)
     ELSE FinishTry(r, InputType(r), InputChars(request[r].text),
                    validateAndPostProcess(outcome.value, request[r].text.s),
                    logThrows1, logThrows2)
  /\ uploads' = uploads \ {r}
  /\ UNCHANGED <<request, llmRequests, fnVars, clientVars>>

InitServer ==
  /\ ServerIdle
  /\ fnIn = NotRun
  /\ fnOut = NotRun
  /\ ClientIdle

Next ==
  \/ \E r \in Requests, text \in BodyTexts, logThrows \in BOOLEAN :
       ExtractText(r, text, logThrows)
  \/ \E r \in Requests, mimetype \in Uploads : ExtractFile(r, mimetype)
  \/ \E r \in Requests, outcome \in OcrOutcomes, logThrows \in BOOLEAN :
       OcrReturns(r, outcome, logThrows)
  \/ \E r \in Requests, outcome \in LLMOutcomes, logThrows1, logThrows2 \in BOOLEAN :
       CompletionReturns(r, outcome, logThrows1, logThrows2)

Spec == InitServer /\ [][Next]_vars

----------------------------------------------------------------------------
(* Completion and validation applied to bounded inputs *)

InitValidate ==
  /\ fnIn \in [decoded : DecodedValues, text : {<<>>, RoundTripText}]
  /\ fnOut = NotRun
  /\ ServerIdle
  /\ ClientIdle

\* assertValidOutput(ensureRequiredKeys(obj))
Validate ==
  /\ fnOut = NotRun
  /\ fnOut' = [op |-> "validate", r |-> assertValidOutput(ensureRequiredKeys(fnIn.decoded))]
  /\ UNCHANGED <<fnIn, serverVars, clientVars>>

\* the route's steps on the decoded answer (part_001 lines 436-447)
ExtractDecoded ==
  /\ fnOut = NotRun
  /\ fnOut' = [op |-> "extract", r |-> validateAndPostProcess(fnIn.decoded, fnIn.text)]
  /\ UNCHANGED <<fnIn, serverVars, clientVars>>

NextValidate == Validate \/ ExtractDecoded

SpecValidate == InitValidate /\ [][NextValidate]_vars

(* Properties of completion and validation *)

RequiredKeys(tag) ==
  IF tag = Flight THEN Range(FlightKeys) ELSE IF tag = Hotel THEN Range(HotelKeys) ELSE {}

\* C7: the data of every success has type "flight" or "hotel" and holds every
\* required key of that type, whatever the model returned.
C7_PayloadComplete ==
  (fnOut.op = "extract" /\ fnOut.r.ok) =>
    /\ IsObj(fnOut.r.data)
    /\ "type" \in DOMAIN fnOut.r.data.f
    /\ fnOut.r.data.f["type"] \in {Flight, Hotel}
    /\ RequiredKeys(fnOut.r.data.f["type"]) \subseteq DOMAIN fnOut.r.data.f

\* a flight answer that lacked keys and was returned complete
C7_Witness ==
  /\ fnOut.op = "extract" /\ fnOut.r.ok
  /\ IsObj(fnIn.decoded)
  /\ ~(Range(FlightKeys) \subseteq DOMAIN fnIn.decoded.f)
  /\ fnOut.r.data.f["type"] = Flight
  /\ Range(FlightKeys) \subseteq DOMAIN fnOut.r.data.f

\* C8: validation after completion succeeds exactly when the decoded value's
\* type is "flight" or "hotel", whichever keys it holds.
C8_ValidatesIffTagged ==
  fnOut.op = "validate" =>
    ((fnOut.r = NoError) <=>
       (IsObj(fnIn.decoded) /\ "type" \in DOMAIN fnIn.decoded.f
          /\ fnIn.decoded.f["type"] \in {Flight, Hotel}))

\* a hotel answer holding none of its keys validates once completed
C8_Witness ==
  /\ fnOut.op = "validate"
  /\ fnOut.r = NoError
  /\ IsObj(fnIn.decoded)
  /\ fnIn.decoded.f["type"] = Hotel
  /\ Cardinality(Range(HotelKeys) \ DOMAIN fnIn.decoded.f) >= 2

----------------------------------------------------------------------------
(* Properties of the routes *)

RowsOf(r) == {i \in DOMAIN evalRuns : evalRuns[i].req = r}

\* C1: by the time a response is sent, the handler has appended exactly one
\* row for the request, whatever the outcome.
C1_OneRowPerResponse ==
  \A r \in Requests : response[r] # NoResponse => Cardinality(RowsOf(r)) = 1

Settled(r) == pc[r] \in {"done", "rejected"} /\ extraction[r] # NoExtraction

\* C2: whether or not logEvalRun throws, a request whose extraction succeeded
\* is answered with the success and its data, and one whose extraction failed
\* with the failure and the extraction's error.
C2_RecorderFailureKeepsOutcome ==
  \A r \in Requests :
    Settled(r) =>
      response[r] = (IF extraction[r].r.ok
                     THEN OkResponse(extraction[r].r.data)
                     ELSE ErrorResponse(500, extraction[r].r.error))

\* C6: every response carries a boolean ok: true with data, false with one
\* error message.
C6_ExplicitOkFlag ==
  \A r \in Requests :
    response[r] # NoResponse =>
      /\ "ok" \in DOMAIN response[r].body
      /\ response[r].body.ok \in BOOLEAN
      /\ IF response[r].body.ok
         THEN DOMAIN response[r].body = {"ok", "data"}
         ELSE DOMAIN response[r].body = {"ok", "error"}

----------------------------------------------------------------------------
(* The client: onPickFile and clearAll of App.tsx *)

\* most pages of a picked PDF
MaxPages == 4

\* if (normalized.length >= 40)
TextThreshold == 40

\* const pagesToTry = Math.min(3, pdf.numPages)
OcrPageLimit == 3

\* a page limit that is the page count of the document
PageCount(a, b) == b

Min(a, b) == IF a <= b THEN a ELSE b

\* the files: a PDF with its pages and the length of its normalized text,
\* an image, or a file of another type
Documents ==
  {[kind |-> "pdf", numPages |-> n, textLength |-> len] :
     n \in 1 .. MaxPages, len \in {TextThreshold - 1, TextThreshold}} \cup
  {[kind |-> "image"], [kind |-> "other"]}

\* the message of an Error thrown while pick p handles page i (0: no page)
Message(text, p, i) == [msg |-> text, doc |-> p, page |-> i]

FallbackFailed == Message("OCR fallback failed for the first pages.", 0, 0)

\* the record a backend call returns for page i of pick p (0: the whole file)
Data(p, i) == [data |-> "record", doc |-> p, page |-> i]

\* return, or the catch block of onPickFile, then its finally block
Finish(p, how, shownResult, shownError) ==
  /\ result' = shownResult
  /\ error' = shownError
  /\ loading' = FALSE
  /\ pick' = [pick EXCEPT ![p].pc = "done",
                          ![p].finish = [how |-> how, page |-> pick[p].page,
                                         result |-> shownResult, error |-> shownError]]

\* onPickFile up to its first await
PickFile(p, doc) ==
  /\ ~loading
  /\ pick[p].pc = "none"
  /\ \A q \in Picks : q < p => pick[q].pc # "none"
  /\ IF doc.kind = "pdf"
     THEN /\ pick' = [pick EXCEPT ![p].pc = "readPdf", ![p].doc = doc,
                                  ![p].closureError = error]
          /\ loading' = TRUE
          /\ error' = JNull
          /\ result' = JNull
          /\ fileMeta' = JNull
     ELSE IF doc.kind = "image"
     THEN /\ pick' = [pick EXCEPT ![p].pc = "awaitImage", ![p].doc = doc,
                                  ![p].closureError = error]
          /\ loading' = TRUE
          /\ error' = JNull
          /\ result' = JNull
          /\ fileMeta' = [name |-> p]
     ELSE /\ pick' = [pick EXCEPT ![p].pc = "done", ![p].doc = doc,
                                  ![p].closureError = error,
                                  ![p].finish =
                                    [how |-> "failure", page |-> 0, result |-> JNull,
                                     error |-> Message("Please upload a PDF or image.", p, 0)]]
          /\ loading' = FALSE
          /\ error' = Message("Please upload a PDF or image.", p, 0)
          /\ result' = JNull
          /\ fileMeta' = JNull
  /\ UNCHANGED <<fnVars, serverVars>>

\* an intake that sends a text down the text path only above the threshold
PdfReadAbove(p, ok) ==
  /\ pick[p].pc = "readPdf"
  /\ IF ~ok
     THEN /\ Finish(p, "failure", result, Message("Invalid PDF", p, 0))
          /\ UNCHANGED fileMeta
     ELSE /\ fileMeta' = [name |-> p, pages |-> pick[p].doc.numPages]
          /\ IF pick[p].doc.textLength > TextThreshold
             THEN pick' = [pick EXCEPT ![p].pc = "awaitText", ![p].textCalls = @ + 1]
             ELSE pick' = [pick EXCEPT ![p].pc = "render", ![p].page = 1,
                                       ![p].attempts = Append(@, 1)]
          /\ UNCHANGED <<loading, error, result>>
  /\ UNCHANGED <<fnVars, serverVars>>

\* the text of the PDF is read: the text path when it is long enough,
\* otherwise the first page of the OCR fallback
PdfRead(p, ok) ==
  /\ pick[p].pc = "readPdf"
  /\ IF ~ok
     THEN /\ Finish(p, "failure", result, Message("Invalid PDF", p, 0))
          /\ UNCHANGED fileMeta
     ELSE /\ fileMeta' = [name |-> p, pages |-> pick[p].doc.numPages]
          /\ IF pick[p].doc.textLength >= TextThreshold
             THEN pick' = [pick EXCEPT ![p].pc = "awaitText", ![p].textCalls = @ + 1]
             ELSE pick' = [pick EXCEPT ![p].pc = "render", ![p].page = 1,
                                       ![p].attempts = Append(@, 1)]
          /\ UNCHANGED <<loading, error, result>>
  /\ UNCHANGED <<fnVars, serverVars>>

\* callTextExtraction or, for an image, callFileOcrExtraction settles
BackendReturns(p, ok) ==
  /\ pick[p].pc \in {"awaitText", "awaitImage"}
  /\ IF ok
     THEN Finish(p, "success", Data(p, 0), error)
     ELSE Finish(p, "failure", result, Message("Extraction failed", p, 0))
  /\ UNCHANGED <<fileMeta, fnVars, serverVars>>

\* The catch block of the page loop, then the next page or, after the last
\* one, the throw behind the loop with the error the closure captured, the
\* outer catch block and the finally block.
PageFailed(p, message, live) ==
  LET i == pick[p].page
      pagesToTry == Min(OcrPageLimit, pick[p].doc.numPages)
      first == IF pick[p].firstFailure = JNull THEN message ELSE pick[p].firstFailure
      thrown == IF pick[p].closureError # JNull THEN pick[p].closureError
                ELSE FallbackFailed
  IN  IF i + 1 <= pagesToTry
      THEN /\ error' = (IF error = JNull THEN message ELSE error)
           /\ pick' = [pick EXCEPT ![p].pc = "render", ![p].page = i + 1,
                                   ![p].attempts = Append(@, i + 1),
                                   ![p].canvases = live,
                                   ![p].firstFailure = first]
           /\ UNCHANGED <<loading, result>>
      ELSE /\ error' = thrown
           /\ loading' = FALSE
           /\ pick' = [pick EXCEPT ![p].pc = "done",
                                   ![p].canvases = live,
                                   ![p].firstFailure = first,
                                   ![p].finish = [how |-> "failure", page |-> i,
                                                  result |-> result, error |-> thrown]]
           /\ UNCHANGED result

\* getPage, the canvas and page.render settle
PageRendered(p, ok) ==
  /\ pick[p].pc = "render"
  /\ IF ok
     THEN /\ pick' = [pick EXCEPT ![p].pc = "encode",
                                  ![p].canvases = @ \cup {pick[p].page}]
          /\ UNCHANGED <<loading, error, result>>
     ELSE PageFailed(p, Message("render failed", p, pick[p].page),
                     pick[p].canvases \cup {pick[p].page})
  /\ UNCHANGED <<fileMeta, fnVars, serverVars>>

\* canvas.toBlob settles: the canvas is released and the image submitted
PageEncoded(p, ok) ==
  /\ pick[p].pc = "encode"
  /\ IF ok
     THEN /\ pick' = [pick EXCEPT ![p].pc = "awaitOcr",
                                  ![p].canvases = @ \ {pick[p].page},
                                  ![p].submitted = Append(@, pick[p].page)]
          /\ UNCHANGED <<loading, error, result>>
     ELSE PageFailed(p, Message("canvas.toBlob failed", p, pick[p].page), pick[p].canvases)
  /\ UNCHANGED <<fileMeta, fnVars, serverVars>>

\* callFileOcrExtraction of a page settles
PageReturns(p, ok) ==
  /\ pick[p].pc = "awaitOcr"
  /\ IF ok
     THEN Finish(p, "success", Data(p, pick[p].page), error)
     ELSE PageFailed(p, Message("OCR extraction failed", p, pick[p].page), pick[p].canvases)
  /\ UNCHANGED <<fileMeta, fnVars, serverVars>>

\* the Clear button: disabled={loading && !result && !error}
clearAll ==
  /\ ~(loading /\ result = JNull /\ error = JNull)
  /\ error' = JNull
  /\ result' = JNull
  /\ fileMeta' = JNull
  /\ loading' = FALSE
  /\ UNCHANGED <<pick, fnVars, serverVars>>

InitClient ==
  /\ ClientIdle
  /\ ServerIdle
  /\ fnIn = NotRun
  /\ fnOut = NotRun

NextClient ==
  \/ \E p \in Picks, doc \in Documents : PickFile(p, doc)
  \/ \E p \in Picks, ok \in BOOLEAN : PdfRead(p, ok)
  \/ \E p \in Picks, ok \in BOOLEAN : BackendReturns(p, ok)
  \/ \E p \in Picks, ok \in BOOLEAN : PageRendered(p, ok)
  \/ \E p \in Picks, ok \in BOOLEAN : PageEncoded(p, ok)
  \/ \E p \in Picks, ok \in BOOLEAN : PageReturns(p, ok)
  \/ clearAll

SpecClient == InitClient /\ [][NextClient]_vars

----------------------------------------------------------------------------
(* Properties of the client *)

\* the picks that entered the OCR fallback
InFallback(p) == pick[p].attempts # <<>>

PagesInOrder(p) == \A j \in DOMAIN pick[p].attempts : pick[p].attempts[j] = j

\* the pages submitted to the backend are attempted pages, each once, in order
SubmittedInOrder(p) ==
  /\ \A j \in DOMAIN pick[p].submitted : pick[p].submitted[j] \in Range(pick[p].attempts)
  /\ \A j, k \in DOMAIN pick[p].submitted :
       j < k => pick[p].submitted[j] < pick[p].submitted[k]

\* the page in progress is the last page attempted: no page is rasterized
\* or submitted while an earlier one is still under way
OneAtATime(p) ==
  /\ pick[p].page = pick[p].attempts[Len(pick[p].attempts)]
  /\ pick[p].canvases \subseteq 1 .. pick[p].page
  /\ pick[p].pc = "encode" => pick[p].page \notin Range(pick[p].submitted)

\* the success of a page ends the document with that page's result
StopsAtSuccess(p) ==
  pick[p].finish.how = "success" =>
    /\ pick[p].pc = "done"
    /\ pick[p].finish.page = pick[p].attempts[Len(pick[p].attempts)]
    /\ pick[p].finish.page = pick[p].submitted[Len(pick[p].submitted)]
    /\ pick[p].finish.result = Data(p, pick[p].finish.page)

\* C3: in the OCR fallback the pages are attempted one at a time in
\* increasing order from page 1, at most min(3, pageCount) of them, and
\* once a page's chain succeeds no later page is rasterized or submitted
\* and the document ends in the success state with that page's result.
C3_SequentialFallback ==
  \A p \in Picks :
    InFallback(p) =>
      /\ PagesInOrder(p)
      /\ Len(pick[p].attempts) <= 3
      /\ Len(pick[p].attempts) <= pick[p].doc.numPages
      /\ SubmittedInOrder(p)
      /\ OneAtATime(p)
      /\ StopsAtSuccess(p)

\* a four-page document whose third page succeeded after two pages failed
C3_Witness ==
  \E p \in Picks :
    /\ pick[p].doc.kind = "pdf"
    /\ pick[p].doc.numPages = 4
    /\ pick[p].attempts = <<1, 2, 3>>
    /\ pick[p].submitted = <<2, 3>>
    /\ pick[p].finish.how = "success"
    /\ pick[p].finish.result = Data(p, 3)
    /\ result = Data(p, 3)

\* C4: when every attempted page of the OCR fallback fails, the document
\* fails and the error finally reported for it is the message of the first
\* page failure of this document.
C4_FirstErrorReported ==
  \A p \in Picks :
    (InFallback(p) /\ pick[p].pc = "done" /\ pick[p].finish.how # "success") =>
      /\ pick[p].finish.how = "failure"
      /\ pick[p].finish.error = pick[p].firstFailure

----------------------------------------------------------------------------
(* Properties of the flight post-processing *)

Extracted == fnOut # NotRun

\* the inputs of the run, as the classifier sees them
SourceText == textToLowerCase(fnIn.text)

CitiesAreNames ==
  /\ IsStr(fnIn.cities.from) /\ fnIn.cities.from.s # <<>>
  /\ IsStr(fnIn.cities.to) /\ fnIn.cities.to.s # <<>>

Origin == toLowerCase(fnIn.cities.from.s)

Destination == toLowerCase(fnIn.cities.to.s)

\* every position of the text at which a token starts; a city name, having
\* no blank in it, can occur at no other position
TokenStarts(t) == {TokenStart(t, i) : i \in DOMAIN t}

Occurrences(t, pat) == {p \in TokenStarts(t) : MatchAt(t, pat, p)}

\* the forward leg: the first origin occurrence and the first destination
\* occurrence at or after it
FirstOrigin == SetMin(Occurrences(SourceText, Origin))

DestinationsAfterOrigin == {q \in Occurrences(SourceText, Destination) : q >= FirstOrigin}

ForwardLegFound ==
  /\ CitiesAreNames
  /\ Occurrences(SourceText, Origin) # {}
  /\ DestinationsAfterOrigin # {}

FirstDestination == SetMin(DestinationsAfterOrigin)

\* check (a): no destination occurrence starts less than 400 characters after p
NotRestated(p) ==
  ~\E q \in Occurrences(SourceText, Destination) : q >= p /\ q - p < 400

\* check (b): a digit lies between 50 characters before p and 100 after it
DigitNear(p) ==
  \E i \in DOMAIN SourceText :
    /\ SourceText[i].ch \in Digits
    /\ \E q \in TokenStart(SourceText, i) ..
                (TokenStart(SourceText, i) + SourceText[i].n - 1) :
         q >= p - 50 /\ q < p + 100

ReturnLegExists ==
  \E p \in Occurrences(SourceText, Origin) :
    p > FirstDestination /\ NotRestated(p) /\ DigitNear(p)

\* C9: a flight record with non-empty cities whose forward leg is found in the
\* text is classified round_trip exactly when some origin occurrence after the
\* destination occurrence of the forward leg passes the repetition check and
\* the plausibility check; otherwise it is classified one_way.
C9_TripClassification ==
  (Extracted /\ ForwardLegFound) =>
    /\ fnOut.r.ok
    /\ Get(fnOut.r.data, "tripType") = (IF ReturnLegExists THEN RoundTrip ELSE OneWay)

\* a round trip found in the text although the model guessed none
C9_Witness ==
  /\ Extracted /\ ForwardLegFound /\ ReturnLegExists
  /\ fnIn.guess.tripType = JNull
  /\ Get(fnOut.r.data, "tripType") = RoundTrip

\* C10: when the text holds the origin, later the destination and no further
\* origin, the returned record is one_way with returnDate null, whatever the
\* model guessed.
C10_OneWayOverridesGuess ==
  (/\ Extracted
   /\ ForwardLegFound
   /\ Occurrences(SourceText, Origin) = {FirstOrigin}
   /\ FirstDestination > FirstOrigin) =>
    /\ fnOut.r.ok
    /\ Get(fnOut.r.data, "tripType") = OneWay
    /\ Get(fnOut.r.data, "returnDate") = JNull

C10_Witness ==
  /\ Extracted
  /\ ForwardLegFound
  /\ Occurrences(SourceText, Origin) = {FirstOrigin}
  /\ FirstDestination > FirstOrigin
  /\ fnIn.guess.tripType = RoundTrip
  /\ fnIn.guess.returnDate = SomeDate
  /\ Get(fnOut.r.data, "tripType") = OneWay
  /\ Get(fnOut.r.data, "returnDate") = JNull

\* C5: in every flight record returned, tripType = one_way implies
\* returnDate = null, also when overallFrom or overallTo is empty or null.
C5_OneWayHasNoReturnDate ==
  (Extracted /\ fnOut.r.ok /\ Get(fnOut.r.data, "tripType") = OneWay) =>
    Get(fnOut.r.data, "returnDate") = JNull

\* C11: when the classification is round_trip, the returnDate of the
\* returned record is the returnDate the model produced.
C11_ReturnDateRetained ==
  (Extracted /\ fnOut.r.ok /\ Get(fnOut.r.data, "tripType") = RoundTrip) =>
    Get(fnOut.r.data, "returnDate") = fnIn.guess.returnDate

\* a round trip found in the text whose record keeps the model's date
C11_Witness ==
  /\ Extracted /\ ForwardLegFound /\ ReturnLegExists
  /\ fnIn.guess.returnDate = SomeDate
  /\ fnOut.r.ok
  /\ Get(fnOut.r.data, "tripType") = RoundTrip
  /\ Get(fnOut.r.data, "returnDate") = SomeDate

----------------------------------------------------------------------------
(* Properties of the intake *)

\* the picks of a PDF whose text was read and normalized
TextRead(p) ==
  /\ pick[p].doc.kind = "pdf"
  /\ pick[p].pc \notin {"none", "readPdf"}
  /\ ~(pick[p].finish.how = "failure" /\ pick[p].finish.error = Message("Invalid PDF", p, 0))

\* C12: a PDF whose normalized text has at least 40 characters is sent once
\* down the text path, with no page rasterized or submitted for OCR; one with
\* 39 characters or fewer is never sent down the text path and enters the
\* OCR fallback.
C12_IntakeThreshold ==
  \A p \in Picks :
    TextRead(p) =>
      IF pick[p].doc.textLength >= 40
      THEN /\ pick[p].textCalls = 1
           /\ pick[p].attempts = <<>>
           /\ pick[p].submitted = <<>>
           /\ pick[p].canvases = {}
      ELSE /\ pick[p].textCalls = 0
           /\ InFallback(p)

\* a text of exactly 40 characters that came back from the text path
C12_Witness ==
  \E p \in Picks :
    /\ TextRead(p)
    /\ pick[p].doc.textLength = 40
    /\ pick[p].textCalls = 1
    /\ pick[p].finish.how = "success"
    /\ result = Data(p, 0)

----------------------------------------------------------------------------
(* The decoder applied to bounded raw responses *)

\* longest raw response, in chunks
MaxRawLen == 6

\* the chunks of a response as the provider sends it
RawChunks == {"{", "}", "k", "q", "n", "1", "w", Fence}

RawResponses == UNION {[1 .. k -> RawChunks] : k \in 0 .. MaxRawLen}

InitDecode ==
  /\ fnIn \in [raw : RawResponses]
  /\ fnOut = NotRun
  /\ ServerIdle
  /\ ClientIdle

\* callLLM, lines 389-406
Decode ==
  /\ fnOut = NotRun
  /\ fnOut' = [op |-> "decode", r |-> decodeResponse(fnIn.raw)]
  /\ UNCHANGED <<fnIn, serverVars, clientVars>>

NextDecode == Decode

SpecDecode == InitDecode /\ [][NextDecode]_vars

(* Properties of the decoder *)

Decoded == fnOut # NotRun /\ fnOut.op = "decode"

\* the chunks i .. j of the response are one JSON object and all the others
\* are prose or fences; no chunk of prose and no string value holds a brace
ObjectAt(i, j) ==
  /\ i < j
  /\ fnIn.raw[i] = "{"
  /\ ValueEnd(fnIn.raw, i) = j + 1
  /\ \A x \in DOMAIN fnIn.raw : (x < i \/ x > j) => fnIn.raw[x] \in {"w", Fence}

\* C13: a response made of optional prose and fences around one JSON object
\* decodes to exactly that object; a response in which no balanced object is
\* found, or whose balanced substring does not parse, fails.
C13_DecoderReturnsObject ==
  Decoded =>
    /\ \A i, j \in DOMAIN fnIn.raw :
         ObjectAt(i, j) =>
           fnOut.r.ok /\ fnOut.r.value = SubSeq(fnIn.raw, i, j)
    /\ (extractFirstJSONObject(fnIn.raw) = NoObject
          \/ ~JSONParse(extractFirstJSONObject(fnIn.raw)).ok) => ~fnOut.r.ok

----------------------------------------------------------------------------
(* Properties of the orchestration *)

\* the attempt of request r failed after its completion request was issued:
\* a transport, provider, decode or schema failure
FailedAfterRequest(r) ==
  /\ Settled(r)
  /\ llmRequests[r] >= 1
  /\ ~extraction[r].r.ok

\* C14: an attempt issues one completion request and no more; a transport,
\* provider, decode or schema failure ends it with a failure response and
\* no second request.
C14_OneCompletionRequest ==
  \A r \in Requests :
    /\ llmRequests[r] <= 1
    /\ pc[r] = "awaitLLM" => llmRequests[r] = 1
    /\ FailedAfterRequest(r) =>
         /\ llmRequests[r] = 1
         /\ response[r] = ErrorResponse(500, extraction[r].r.error)

----------------------------------------------------------------------------
(* Properties of the transient artifacts *)

\* the canvases of pick p that are live are that of the page being encoded
CanvasesReleased(p) ==
  pick[p].canvases # {} => (pick[p].pc = "encode" /\ pick[p].canvases = {pick[p].page})

\* the upload of a request whose handler is over is deleted
UploadDeleted(r) == pc[r] \in {"done", "rejected"} => r \notin uploads

\* C15: every canvas of the OCR fallback is released when its page's attempt
\* is over, however it ended, and every stored upload is deleted when its
\* request is over, however it ended.
C15_ArtifactsReleased ==
  /\ \A p \in Picks : CanvasesReleased(p)
  /\ \A r \in Requests : UploadDeleted(r)

----------------------------------------------------------------------------
(* The name cleanup applied to bounded names *)

\* longest name, in characters
MaxNameLen == 4

\* letters that spell MR, MRS and MS in either case, an accented letter, a
\* full stop, a hyphen, a blank and a digit
NameChars == {"M", "r", "s", "é", ".", "-", " ", "1"}

Names == UNION {[1 .. k -> NameChars] : k \in 0 .. MaxNameLen}

InitName ==
  /\ fnIn \in [name : Names]
  /\ fnOut = NotRun
  /\ ServerIdle
  /\ ClientIdle

\* out.passengerName = cleanNameAllCaps(out.passengerName), line 275
CleanName ==
  /\ fnOut = NotRun
  /\ fnOut' = [op |-> "cleanName", r |-> cleanNameAllCaps(JStr(fnIn.name))]
  /\ UNCHANGED <<fnIn, serverVars, clientVars>>

NextName == CleanName

SpecName == InitName /\ [][NextName]_vars

(* Properties of the names *)

IsNameLetter(c) == IsLetter(c) \/ c \in AccentedChars

NoLowerCase(s) == \A i \in DOMAIN s : s[i] \notin LowerLetters \cup Range(LowerAccented)

\* a maximal run of letters of s that spells an honorific
HasHonorificToken(s) ==
  \E i, j \in DOMAIN s :
    /\ i <= j
    /\ toUpperCase(SubSeq(s, i, j)) \in Range(Honorifics)
    /\ i = 1 \/ ~IsNameLetter(s[i - 1])
    /\ j = Len(s) \/ ~IsNameLetter(s[j + 1])

IsCleanName(v) == v = JNull \/ (IsStr(v) /\ NoLowerCase(v.s) /\ ~HasHonorificToken(v.s))

\* C16: in every record returned to a caller, passengerName and guestName
\* are null or an upper-case string that holds no honorific token.
C16_NamesClean ==
  \A r \in Requests :
    response[r].status = 200 =>
      \A k \in {"passengerName", "guestName"} :
        HasKey(response[r].body.data, k) => IsCleanName(Get(response[r].body.data, k))

Cleaned == fnOut # NotRun /\ fnOut.op = "cleanName"

HasLetter(s) == \E i \in DOMAIN s : IsNameLetter(s[i])

\* the letters, hyphens and apostrophes of s, in order
Marks(s) == SelectSeq(s, LAMBDA c : IsNameLetter(c) \/ c \in {"'", "-"})

\* s holds letters, blanks, hyphens and apostrophes only, the letters in
\* upper case, and no blank at either end or next to another
IsTidy(s) ==
  /\ \A i \in DOMAIN s : IsNameLetter(s[i]) \/ s[i] \in {" ", "'", "-"}
  /\ NoLowerCase(s)
  /\ s # <<>> => (s[1] # " " /\ s[Len(s)] # " ")
  /\ \A i \in DOMAIN s : (i < Len(s) /\ s[i] = " ") => s[i + 1] # " "

\* C17: the cleanup of a name without any letter is null; the cleanup of any
\* other name is what is left of it after the honorifics, its letters,
\* hyphens and apostrophes in upper case, with the blanks collapsed.
C17_NameCleanup ==
  Cleaned =>
    IF ~HasLetter(fnIn.name) THEN fnOut.r = JNull
    ELSE \/ fnOut.r = JNull /\ Marks(StripHonorifics(fnIn.name, 1)) = <<>>
         \/ /\ IsStr(fnOut.r)
            /\ IsTidy(fnOut.r.s)
            /\ Marks(fnOut.r.s) = toUpperCase(Marks(StripHonorifics(fnIn.name, 1)))

----------------------------------------------------------------------------
(* Properties of the return-leg scan *)

\* the first position behind the destination occurrence of the forward leg
AfterDestination == FirstDestination + Len(Destination)

\* C18: only an origin occurrence that starts after the end of the forward
\* leg's destination occurrence can classify the record round_trip; an
\* origin match at or inside that occurrence never does.
C18_ScanStartsAfterDestination ==
  (/\ Extracted /\ fnOut.op = "extract"
   /\ ForwardLegFound
   /\ fnOut.r.ok
   /\ Get(fnOut.r.data, "tripType") = RoundTrip) =>
    \E p \in Occurrences(SourceText, Origin) :
      p >= AfterDestination /\ NotRestated(p) /\ DigitNear(p)

----------------------------------------------------------------------------
(* The return-leg scan of postProcessFlight, one iteration at a time *)

\* the state of the loop: where control is, the cursor, the occurrences
\* skipped so far and the classification at the return
Scanning(cursor, skips) ==
  [op |-> "scan", at |-> "while", cursor |-> cursor, skips |-> skips, roundTrip |-> FALSE]

Returned(cursor, skips, roundTrip) ==
  [op |-> "scan", at |-> "return", cursor |-> cursor, skips |-> skips,
   roundTrip |-> roundTrip]

\* lines 291-293: the loop is entered when both legs' cities are found
EnterLoop(idxA, idxB) ==
  IF idxA # -1 /\ idxB # -1 THEN Scanning(idxB, 0) ELSE Returned(-1, 0, FALSE)

EnterFrom(t, a, b, idxA) == EnterLoop(idxA, indexOf(t, b, idxA))

\* lines 278-289
ScanBegin ==
  /\ fnOut = NotRun
  /\ fnOut' =
       IF \/ ~CanLowerCase(fnIn.cities.from) \/ ~CanLowerCase(fnIn.cities.to)
          \/ OrEmptyLowerCase(fnIn.cities.from) = <<>>
          \/ OrEmptyLowerCase(fnIn.cities.to) = <<>>
       THEN Returned(-1, 0, FALSE)
       ELSE EnterFrom(textToLowerCase(fnIn.text), OrEmptyLowerCase(fnIn.cities.from),
                      OrEmptyLowerCase(fnIn.cities.to),
                      indexOf(textToLowerCase(fnIn.text),
                              OrEmptyLowerCase(fnIn.cities.from), 0))
  /\ UNCHANGED <<fnIn, serverVars, clientVars>>

\* a loop that stays at the occurrence it skips
IterationStays(t, a, b, found, skips) ==
  IF found = -1 THEN Returned(-1, skips, FALSE)
  ELSE IF ~isRepetition(t, b, found) /\ hasDigit(t, found) THEN Returned(found, skips, TRUE)
  ELSE Scanning(found, skips + 1)

\* lines 295-311: the test of the while, the two checks, cursor++
Iteration(t, a, b, found, skips) ==
  IF found = -1 THEN Returned(-1, skips, FALSE)
  ELSE IF ~isRepetition(t, b, found) /\ hasDigit(t, found) THEN Returned(found, skips, TRUE)
  ELSE Scanning(found + 1, skips + 1)

ScanStep ==
  /\ fnOut # NotRun /\ fnOut.op = "scan" /\ fnOut.at = "while"
  /\ fnOut' = Iteration(textToLowerCase(fnIn.text), OrEmptyLowerCase(fnIn.cities.from),
                        OrEmptyLowerCase(fnIn.cities.to),
                        indexOf(textToLowerCase(fnIn.text),
                                OrEmptyLowerCase(fnIn.cities.from), fnOut.cursor),
                        fnOut.skips)
  /\ UNCHANGED <<fnIn, serverVars, clientVars>>

\* longest text the loop is run on, in tokens
MaxScanLen == 3

\* the origin letter, the destination letter, a digit, and a run of blanks
\* that moves what follows out of every window
ScanTexts ==
  UNION {[1 .. k -> {Tok("L", 1), Tok("p", 1), Tok("1", 1), Tok(" ", 399)}] :
           k \in 0 .. MaxScanLen}

\* the city pairs that enter the loop, and one that returns before it
ScanCities ==
  {c \in CityPairs : c.from = JNull \/ (IsStr(c.from) /\ IsStr(c.to) /\ c.from.s # <<>>)}

InitScan ==
  /\ fnIn \in [text : ScanTexts, cities : ScanCities]
  /\ fnOut = NotRun
  /\ ServerIdle
  /\ ClientIdle

NextScan == ScanBegin \/ ScanStep

\* the loop is sequential code: an iteration that can run does run
SpecScan == InitScan /\ [][NextScan]_vars /\ WF_vars(NextScan)

(* Properties of the loop *)

InLoop == fnOut # NotRun /\ fnOut.op = "scan" /\ fnOut.at = "while"

ScanOver == fnOut # NotRun /\ fnOut.op = "scan" /\ fnOut.at = "return"

\* an iteration either leaves the loop or skips an occurrence and moves the
\* cursor forward
CursorAdvances ==
  (InLoop /\ fnOut' # fnOut) =>
    \/ fnOut'.at = "return"
    \/ fnOut'.skips = fnOut.skips + 1 /\ fnOut'.cursor > fnOut.cursor

\* C19: the scan terminates for every text, origin and destination: the
\* cursor increases at each occurrence skipped, and the loop ends at the
\* first occurrence that passes or when no origin occurrence is left.
C19_ScanTerminates == [][CursorAdvances]_vars /\ <>ScanOver

\* a scan that ended after skipping two occurrences
C19_Witness == ScanOver /\ fnOut.skips >= 2

----------------------------------------------------------------------------
(* Properties of the evaluation log *)

\* the row is one of a success and the request received that success
SuccessAgrees(row, resp) ==
  /\ resp.status = 200
  /\ resp.body.ok = TRUE
  /\ row.docType_pred \in {Flight, Hotel}
  /\ row.json_output = Serialized(resp.body.data)
  /\ row.parse_error = JNull

\* the row is one of a failure and the request received that error
FailureAgrees(row, resp) ==
  /\ resp.status \notin {0, 200}
  /\ DOMAIN resp.body = {"error"}
  /\ row.docType_pred = JNull
  /\ row.json_output = JNull
  /\ row.parse_error = resp.body.error

RowAgrees(row, resp) ==
  /\ row.success \in {0, 1}
  /\ row.success = 1 => SuccessAgrees(row, resp)
  /\ row.success = 0 => FailureAgrees(row, resp)

----------------------------------------------------------------------------
(* Properties of the state the client shows *)

\* the pick whose processing has finished
Finished(p) == pick[p].pc = "done"

\* no pick after p is being processed
NoneLater(p) == \A q \in Picks : q > p => pick[q].pc \in {"none", "done"}

\* what the page showed when the processing of p finished
ShowsResultOnly(p) == pick[p].finish.result # JNull /\ pick[p].finish.error = JNull

ShowsErrorOnly(p) == pick[p].finish.error # JNull /\ pick[p].finish.result = JNull

\* C21: when the processing of a picked file finishes, loading is false and
\* exactly one of result and error is set: a document that ends in success
\* (a fallback in which an earlier page failed and a later page succeeded
\* included) shows a result and no error, and a document that ends in
\* failure shows an error and no result.
C21_OneOutcomeShown ==
  \A p \in Picks :
    Finished(p) =>
      /\ NoneLater(p) => loading = FALSE
      /\ pick[p].finish.how \in {"success", "failure"}
      /\ pick[p].finish.how = "success" => ShowsResultOnly(p)
      /\ pick[p].finish.how = "failure" => ShowsErrorOnly(p)

\* the claim for the documents none of whose pages failed
C21_CleanRunsShowOneOutcome ==
  \A p \in Picks :
    (Finished(p) /\ pick[p].firstFailure = JNull) =>
      /\ NoneLater(p) => loading = FALSE
      /\ pick[p].finish.how = "success" => ShowsResultOnly(p)
      /\ pick[p].finish.how = "failure" => ShowsErrorOnly(p)

----------------------------------------------------------------------------
(* The client with a second file: the user picks again once the buttons
   allow it, while the pipeline of the first file may still be under way *)

\* files the user picks in a run with a second file
MaxOverlap == 2

OverlapPicks == 1 .. MaxOverlap

\* the files of such a run: the PDFs of at most two pages, an image, another file
OverlapDocuments == {d \in Documents : d.kind = "pdf" => d.numPages <= 2}

InitOverlap ==
  /\ loading = FALSE
  /\ error = JNull
  /\ result = JNull
  /\ fileMeta = JNull
  /\ pick = [p \in OverlapPicks |-> NotPicked]
  /\ ServerIdle
  /\ fnIn = NotRun
  /\ fnOut = NotRun

NextOverlap ==
  \/ \E p \in OverlapPicks, doc \in OverlapDocuments : PickFile(p, doc)
  \/ \E p \in OverlapPicks, ok \in BOOLEAN : PdfRead(p, ok)
  \/ \E p \in OverlapPicks, ok \in BOOLEAN : BackendReturns(p, ok)
  \/ \E p \in OverlapPicks, ok \in BOOLEAN : PageRendered(p, ok)
  \/ \E p \in OverlapPicks, ok \in BOOLEAN : PageEncoded(p, ok)
  \/ \E p \in OverlapPicks, ok \in BOOLEAN : PageReturns(p, ok)
  \/ clearAll

SpecOverlap == InitOverlap /\ [][NextOverlap]_vars

----------------------------------------------------------------------------
(* Properties of the pipelines in flight *)

\* the processing of pick p has started and not finished
InFlight(p) == pick[p].pc \notin {"none", "done"}

Picked(p) == pick[p].pc # "none"

\* the last file picked so far
IsLatest(p) == Picked(p) /\ \A q \in OverlapPicks : q > p => ~Picked(q)

\* the result on the page is a record of pick p
ResultOf(p) == result # JNull => result.doc = p

\* the error on the page was thrown while pick p was processed
ErrorOf(p) ==
  error # JNull => \/ error.doc = p
                   \/ error = FallbackFailed
                   \/ error = pick[p].closureError

AtMostOneInFlight ==
  \A p, q \in OverlapPicks : (InFlight(p) /\ InFlight(q)) => p = q

LatestOwnsState ==
  \A p \in OverlapPicks : IsLatest(p) => (ResultOf(p) /\ ErrorOf(p))

\* C22: at most one document pipeline is in flight at any time: while the
\* processing of a picked file has not finished no interleaving of Choose
\* file and Clear starts the processing of another file, so a result or
\* error set by an earlier file's pipeline never overwrites the state of a
\* later picked file.
C22_OnePipelineInFlight == AtMostOneInFlight /\ LatestOwnsState

====
